---- MODULE Spec2Model ----
(***************************************************************************)
(* Model of the schedule views of openschichtplaner5-api                    *)
(* (src/src/openschichtplaner5_api/api.py): the Month Grid (get_dienstplan),*)
(* the Shift Matrix (get_einsatzplan) and the Year Grid                     *)
(* (get_jahresuebersicht), with the date parsing each of them performs.     *)
(*                                                                         *)
(* A Python str is a sequence of one-character strings, so that the        *)
(* parsers below work on the characters as the code does.                  *)
(***************************************************************************)
EXTENDS Integers, Sequences, FiniteSets, TLC

\* ------------------------------------------------------------------------
\* Python string primitives
\* ------------------------------------------------------------------------

DigitChars == <<"0", "1", "2", "3", "4", "5", "6", "7", "8", "9">>

IsDigit(c) == \E n \in 1..10 : DigitChars[n] = c

DigitVal(c) == (CHOOSE n \in 1..10 : DigitChars[n] = c) - 1

\* int(s) for a string of digits; a leading blank (the " [1-9]" day form of
\* strptime) contributes nothing.
RECURSIVE StrToInt(_)
StrToInt(s) ==
    IF s = <<>> THEN 0
    ELSE LET front == SubSeq(s, 1, Len(s) - 1)
             last  == s[Len(s)]
         IN  IF IsDigit(last) THEN 10 * StrToInt(front) + DigitVal(last)
             ELSE StrToInt(front)

\* c in s
Contains(s, c) == \E i \in 1..Len(s) : s[i] = c

\* s[:n]
Slice(s, n) == SubSeq(s, 1, IF n < Len(s) THEN n ELSE Len(s))

\* s.replace(a, b) for single characters
Replace(s, a, b) == [i \in 1..Len(s) |-> IF s[i] = a THEN b ELSE s[i]]

\* s.isdigit()
IsDigitStr(s) == Len(s) > 0 /\ \A i \in 1..Len(s) : IsDigit(s[i])

\* s.split(c): the parts between the occurrences of c
RECURSIVE Split(_, _)
Split(s, c) ==
    IF ~Contains(s, c) THEN <<s>>
    ELSE LET i == CHOOSE j \in 1..Len(s) :
                      s[j] = c /\ \A k \in 1..(j - 1) : s[k] # c
         IN  <<SubSeq(s, 1, i - 1)>> \o Split(SubSeq(s, i + 1, Len(s)), c)

\* ------------------------------------------------------------------------
\* calendar
\* ------------------------------------------------------------------------

IsLeap(y) == (y % 4 = 0) /\ ((y % 100 # 0) \/ (y % 400 = 0))

\* calendar.monthrange(year, month)[1]
DaysInMonth(y, m) ==
    IF m = 2 THEN (IF IsLeap(y) THEN 29 ELSE 28)
    ELSE IF m \in {4, 6, 9, 11} THEN 30 ELSE 31

\* datetime.date(y, m, d) does not raise ValueError
ValidDate(y, m, d) ==
    /\ y \in 1..9999
    /\ m \in 1..12
    /\ d \in 1..DaysInMonth(y, m)

\* ------------------------------------------------------------------------
\* Outcome of normalising one date value.
\*   kind "date"  a datetime.date (y, m, d)
\*   kind "error" ValueError/TypeError raised inside the parsing try block
\*   kind "skip"  the value was passed over without an exception
\*   kind "raw"   the value was left as it came (not a date)
\* rule names the encoding rule that was applied to a string.
\* ------------------------------------------------------------------------

DateOf(y, m, d, rule) == [kind |-> "date", y |-> y, m |-> m, d |-> d, rule |-> rule]
NoDate(kind, rule)    == [kind |-> kind, y |-> 0, m |-> 0, d |-> 0, rule |-> rule]

\* ------------------------------------------------------------------------
\* datetime.strptime: the format is turned into a regular expression, one
\* group per directive, matched from the start of the string with
\* backtracking over each group's alternatives in their written order; the
\* match must then cover the whole string.
\* ------------------------------------------------------------------------

At(s, i) == IF i \in 1..Len(s) THEN s[i] ELSE "EOS"

\* The lengths, in the order tried, of the alternatives of directive tok that
\* match s at position i.
Alternatives(tok, s, i) ==
    LET c1 == At(s, i)
        c2 == At(s, i + 1)
        cand ==
          CASE tok = "Y" ->
                 <<[len |-> 4, ok |-> \A k \in 0..3 : IsDigit(At(s, i + k))]>>
            [] tok = "y" ->
                 <<[len |-> 2, ok |-> IsDigit(c1) /\ IsDigit(c2)]>>
            [] tok = "m" ->
                 <<[len |-> 2, ok |-> c1 = "1" /\ c2 \in {"0", "1", "2"}],
                   [len |-> 2, ok |-> c1 = "0" /\ IsDigit(c2) /\ c2 # "0"],
                   [len |-> 1, ok |-> IsDigit(c1) /\ c1 # "0"]>>
            [] tok = "d" ->
                 <<[len |-> 2, ok |-> c1 = "3" /\ c2 \in {"0", "1"}],
                   [len |-> 2, ok |-> c1 \in {"1", "2"} /\ IsDigit(c2)],
                   [len |-> 2, ok |-> c1 = "0" /\ IsDigit(c2) /\ c2 # "0"],
                   [len |-> 1, ok |-> IsDigit(c1) /\ c1 # "0"],
                   [len |-> 2, ok |-> c1 = " " /\ IsDigit(c2) /\ c2 # "0"]>>
            [] OTHER ->
                 <<[len |-> 1, ok |-> c1 = tok]>>
    IN  SelectSeq(cand, LAMBDA a : a.ok)

\* The first match of fmt[k..] against s from position i: the lengths taken
\* by the directives, or failure.
RECURSIVE ReMatch(_, _, _, _)
ReMatch(fmt, k, s, i) ==
    IF k > Len(fmt) THEN [ok |-> TRUE, lens |-> <<>>]
    ELSE LET good == SelectSeq(Alternatives(fmt[k], s, i),
                               LAMBDA a : ReMatch(fmt, k + 1, s, i + a.len).ok)
         IN  IF good = <<>> THEN [ok |-> FALSE, lens |-> <<>>]
             ELSE [ok   |-> TRUE,
                   lens |-> <<good[1].len>>
                            \o ReMatch(fmt, k + 1, s, i + good[1].len).lens]

RECURSIVE SumSeq(_)
SumSeq(q) == IF q = <<>> THEN 0 ELSE q[1] + SumSeq(Tail(q))

\* The text matched by the directive tok of fmt (0 when fmt has none).
Field(fmt, lens, s, tok) ==
    IF \E k \in 1..Len(fmt) : fmt[k] = tok
    THEN LET k     == CHOOSE j \in 1..Len(fmt) : fmt[j] = tok
             start == SumSeq(SubSeq(lens, 1, k - 1))
         IN  StrToInt(SubSeq(s, start + 1, start + lens[k]))
    ELSE 0

\* datetime.strptime(s, fmt).date()
Strptime(s, fmt, rule) ==
    LET r == ReMatch(fmt, 1, s, 1)
    IN  IF ~r.ok \/ SumSeq(r.lens) # Len(s) THEN NoDate("error", rule)
        ELSE LET yy == Field(fmt, r.lens, s, "y")
                 y  == IF \E k \in 1..Len(fmt) : fmt[k] = "Y"
                       THEN Field(fmt, r.lens, s, "Y")
                       ELSE IF yy < 69 THEN 2000 + yy ELSE 1900 + yy
                 m  == Field(fmt, r.lens, s, "m")
                 d  == Field(fmt, r.lens, s, "d")
             IN  IF ValidDate(y, m, d) THEN DateOf(y, m, d, rule)
                 ELSE NoDate("error", rule)

FmtDayFirst == <<"d", "/", "m", "/", "Y">>   \* '%d/%m/%Y', the day and the month swapped
FmtIso     == <<"Y", "-", "m", "-", "d">>    \* '%Y-%m-%d'
FmtUsSlash == <<"m", "/", "d", "/", "Y">>    \* '%m/%d/%Y'
FmtShort   == <<"d", "/", "m", "/", "y">>    \* '%d/%m/%y'
FmtGerman  == <<"d", ".", "m", ".", "Y">>    \* '%d.%m.%Y'
FmtBare    == <<"Y", "m", "d">>              \* '%Y%m%d'

\* ------------------------------------------------------------------------
\* datetime.fromisoformat(s).date(): YYYY-MM-DD, then optionally one
\* separator character and a time HH[:MM[:SS]].  (Fractions of a second and
\* UTC offsets are outside the alphabet of the strings considered here.)
\* ------------------------------------------------------------------------

TwoDigits(s, i) == IsDigit(At(s, i)) /\ IsDigit(At(s, i + 1))

IsoTimeOk(t) ==
    LET hh == StrToInt(SubSeq(t, 1, 2))
        mm == StrToInt(SubSeq(t, 4, 5))
        ss == StrToInt(SubSeq(t, 7, 8))
    IN  \/ Len(t) = 2 /\ TwoDigits(t, 1) /\ hh < 24
        \/ Len(t) = 5 /\ TwoDigits(t, 1) /\ t[3] = ":" /\ TwoDigits(t, 4)
                      /\ hh < 24 /\ mm < 60
        \/ Len(t) = 8 /\ TwoDigits(t, 1) /\ t[3] = ":" /\ TwoDigits(t, 4)
                      /\ t[6] = ":" /\ TwoDigits(t, 7)
                      /\ hh < 24 /\ mm < 60 /\ ss < 60

FromIsoformat(s, rule) ==
    LET y == StrToInt(SubSeq(s, 1, 4))
        m == StrToInt(SubSeq(s, 6, 7))
        d == StrToInt(SubSeq(s, 9, 10))
        dateOk == /\ Len(s) >= 10
                  /\ \A k \in 1..4 : IsDigit(s[k])
                  /\ s[5] = "-" /\ TwoDigits(s, 6)
                  /\ s[8] = "-" /\ TwoDigits(s, 9)
        timeOk == Len(s) = 10 \/ IsoTimeOk(SubSeq(s, 12, Len(s)))
    IN  IF dateOk /\ timeOk /\ ValidDate(y, m, d) THEN DateOf(y, m, d, rule)
        ELSE NoDate("error", rule)

\* ------------------------------------------------------------------------
\* Date values as the record store hands them over (shift.get('date')):
\* a str, a datetime.datetime, a datetime.date, an int, or None.
\* ------------------------------------------------------------------------

StrValue(s)           == [t |-> "str", s |-> s, y |-> 0, m |-> 0, d |-> 0]
DatetimeValue(y, m, d) == [t |-> "datetime", s |-> <<>>, y |-> y, m |-> m, d |-> d]
DateValue(y, m, d)    == [t |-> "date", s |-> <<>>, y |-> y, m |-> m, d |-> d]
IntValue(n)           == [t |-> "int", s |-> <<>>, y |-> n, m |-> 0, d |-> 0]
NoneValue             == [t |-> "none", s |-> <<>>, y |-> 0, m |-> 0, d |-> 0]

\* bool(v): None, '' and 0 are falsy
Truthy(v) ==
    CASE v.t = "none" -> FALSE
      [] v.t = "str"  -> v.s # <<>>
      [] v.t = "int"  -> v.y # 0
      [] OTHER        -> TRUE

\* get_dienstplan, "Handle different date formats"
DienstplanNormalize(v) ==
    IF ~Truthy(v) THEN NoDate("absent", "none")
    ELSE IF v.t = "str"
    THEN IF Contains(v.s, "T")
         THEN FromIsoformat(Replace(v.s, "T", " "), "isotime")
         ELSE Strptime(Slice(v.s, 10), FmtIso, "iso")
    ELSE IF v.t \in {"datetime", "date"} THEN DateOf(v.y, v.m, v.d, "native")
    ELSE NoDate("raw", "none")

\* The slash branch with '%m/%d/%Y' for every string of 3 parts
EinsatzplanSlashRuleLong(s) ==
    IF Len(Split(s, "/")) = 3 THEN Strptime(s, FmtUsSlash, "slash")
    ELSE NoDate("raw", "slash")

\* The slash branch of get_einsatzplan: a string that does not split into
\* exactly 3 parts is left unchanged, without an exception.
EinsatzplanSlashRule(s) ==
    LET parts == Split(s, "/")
    IN  IF Len(parts) = 3
        THEN IF Len(parts[3]) = 4 THEN Strptime(s, FmtUsSlash, "slash")
             ELSE Strptime(s, FmtShort, "slash")
        ELSE NoDate("raw", "slash")

\* get_einsatzplan, "Handle different date formats"
EinsatzplanNormalize(v) ==
    IF ~Truthy(v) THEN NoDate("absent", "none")
    ELSE IF v.t = "str"
    THEN IF Contains(v.s, "T")
         THEN FromIsoformat(Replace(v.s, "T", " "), "isotime")
         ELSE IF Contains(v.s, "-") /\ Len(v.s) >= 10
         THEN Strptime(Slice(v.s, 10), FmtIso, "iso")
         ELSE IF Contains(v.s, "/") THEN EinsatzplanSlashRule(v.s)
         ELSE IF Contains(v.s, ".") THEN Strptime(v.s, FmtGerman, "dot")
         ELSE IF Len(v.s) = 8 /\ IsDigitStr(v.s) THEN Strptime(v.s, FmtBare, "bare")
         ELSE NoDate("error", "unknown")
    ELSE IF v.t \in {"datetime", "date"} THEN DateOf(v.y, v.m, v.d, "native")
    ELSE NoDate("skip", "none")

\* get_jahresuebersicht, "Parse date"
JahresNormalize(v) ==
    IF ~Truthy(v) THEN NoDate("absent", "none")
    ELSE IF v.t = "str"
    THEN IF Contains(v.s, "-") THEN Strptime(Slice(v.s, 10), FmtIso, "iso")
         ELSE NoDate("skip", "none")
    ELSE IF v.t \in {"datetime", "date"} THEN DateOf(v.y, v.m, v.d, "native")
    ELSE NoDate("skip", "none")

\* ------------------------------------------------------------------------
\* Date strings: the written forms of a calendar date that the record store
\* and its clients produce, and some malformed ones.
\* ------------------------------------------------------------------------

Pad2(n) == <<DigitChars[((n \div 10) % 10) + 1], DigitChars[(n % 10) + 1]>>
Pad4(n) == Pad2(n \div 100) \o Pad2(n % 100)
Unpadded(n) == IF n < 10 THEN <<DigitChars[n + 1]>> ELSE Pad2(n)

\* date.isoformat()
IsoFormat(y, m, d) == Pad4(y) \o <<"-">> \o Pad2(m) \o <<"-">> \o Pad2(d)

IsoTimeForm(y, m, d) == IsoFormat(y, m, d) \o <<"T", "1", "0", ":", "0", "0", ":", "0", "0">>
UsSlashForm(y, m, d) == Pad2(m) \o <<"/">> \o Pad2(d) \o <<"/">> \o Pad4(y)
EuSlashForm(y, m, d) == Pad2(d) \o <<"/">> \o Pad2(m) \o <<"/">> \o Pad4(y)
ShortSlashForm(y, m, d) == Pad2(d) \o <<"/">> \o Pad2(m) \o <<"/">> \o Pad2(y % 100)
GermanForm(y, m, d) == Pad2(d) \o <<".">> \o Pad2(m) \o <<".">> \o Pad4(y)
BareForm(y, m, d)   == Pad4(y) \o Pad2(m) \o Pad2(d)
LooseIsoForm(y, m, d) == Pad4(y) \o <<"-">> \o Unpadded(m) \o <<"-">> \o Unpadded(d)

ProbeYears  == {2025}
ProbeMonths == {2, 6, 13}
ProbeDays   == {3, 10, 31}

WrittenForms(y, m, d) ==
    {IsoFormat(y, m, d), IsoTimeForm(y, m, d), UsSlashForm(y, m, d),
     EuSlashForm(y, m, d), ShortSlashForm(y, m, d), GermanForm(y, m, d),
     BareForm(y, m, d), LooseIsoForm(y, m, d)}

MalformedStrings ==
    {<<"0", "6", "/", "2", "0", "2", "5">>,                          \* 06/2025
     <<"1", "/", "2", "/", "3", "/", "4">>,                          \* 1/2/3/4
     <<"1", "-", "2", "/", "3", "/", "4">>,                          \* 1-2/3/4
     <<"-", "1", ".", "2", ".", "2", "0", "2", "5">>,                \* -1.2.2025
     <<"6", "/", "3", "/", "2", "0", "x", "5">>,                     \* 6/3/20x5
     <<"3", "/", "6", "/", "2", "0", "2">>,                          \* 3/6/202
     <<"3", "/", "6", "/", "2", "5">>,                               \* 3/6/25, well formed
     <<"2", "0", "2", "5", "-", "0", "6", "-", "0", "3", "x">>,      \* 2025-06-03x
     <<"2", "0", "2", "5", "-", "0", "6", "-", "0", "3", "T">>,      \* 2025-06-03T
     <<"2", "0", "2", "5", "-", "0", "6", "-", "0", "3", "T", "2", "5", ":", "0", "0">>,
     <<"2", "0", "2", "5", "0", "6", "0", "3", "1">>,                \* 202506031
     <<"2", "0", "2", "5", "-", "0", "6">>,                          \* 2025-06
     <<"x">>,
     <<>>}

ProbeStrings ==
    MalformedStrings \cup
    UNION {WrittenForms(y, m, d) : <<y, m, d>> \in ProbeYears \X ProbeMonths \X ProbeDays}

ProbeValues ==
    {StrValue(s) : s \in ProbeStrings} \cup
    {DatetimeValue(2025, 6, 3), DateValue(2025, 6, 3), IntValue(20250603),
     IntValue(0), NoneValue}

\* ------------------------------------------------------------------------
\* Python dict values: a key may be missing, or present with the value None.
\* Text fields are character sequences; the two markers below are sequences
\* that no text equals.
\* ------------------------------------------------------------------------

Missing == <<"<missing>">>
PyNone  == <<"<None>">>

\* d.get(key, default)
Get(v, default) == IF v = Missing THEN default ELSE v

\* d.get(key)
GetOrNone(v) == Get(v, PyNone)

\* bool(v) for a text field read with d.get(key)
TruthyText(v) == v \notin {Missing, PyNone, <<>>}

LowerChars == <<"a", "b", "c", "d", "e", "f", "g", "h", "i", "j", "k", "l", "m",
                "n", "o", "p", "q", "r", "s", "t", "u", "v", "w", "x", "y", "z">>
UpperChars == <<"A", "B", "C", "D", "E", "F", "G", "H", "I", "J", "K", "L", "M",
                "N", "O", "P", "Q", "R", "S", "T", "U", "V", "W", "X", "Y", "Z">>

UpperChar(c) ==
    IF \E n \in 1..26 : LowerChars[n] = c
    THEN UpperChars[CHOOSE n \in 1..26 : LowerChars[n] = c]
    ELSE c

\* s.upper()
Upper(s) == [i \in 1..Len(s) |-> UpperChar(s[i])]

\* a < b for two str (lexicographic; the texts compared are digits and ':')
CharRank(c) == IF IsDigit(c) THEN DigitVal(c) ELSE 10
RECURSIVE StrLess(_, _)
StrLess(a, b) ==
    IF b = <<>> THEN FALSE
    ELSE IF a = <<>> THEN TRUE
    ELSE IF a[1] = b[1] THEN StrLess(Tail(a), Tail(b))
    ELSE CharRank(a[1]) < CharRank(b[1])

\* ------------------------------------------------------------------------
\* Reference tables of the record store: 5SHIFT and 5EMPL
\* ------------------------------------------------------------------------

MissingInt == -1

ShiftRow(id, name, shortname, startend0, colorbar) ==
    [id |-> id, name |-> name, shortname |-> shortname, startend0 |-> startend0,
     colorbar |-> colorbar, colorbk |-> colorbar, colortext |-> MissingInt]

\* {} : what shift_definitions.get(shift_id, {}) gives for an unknown id
EmptyDict ==
    [id |-> 0, name |-> Missing, shortname |-> Missing, startend0 |-> Missing,
     colorbar |-> MissingInt, colorbk |-> MissingInt, colortext |-> MissingInt]

RegularShifts ==
    <<ShiftRow(1, <<"F", "r", "u", "e", "h">>, <<"F">>, <<"0", "6", ":", "0", "0">>, 255),
      ShiftRow(2, <<"S", "p", "a", "e", "t">>, Missing, <<"1", "4", ":", "0", "0">>, 128)>>

\* Rows as a hand-maintained 5SHIFT table can hold them: a short name with an
\* empty name, and a name with no start time (None).
IrregularShifts ==
    <<ShiftRow(1, <<>>, <<"N">>, Missing, 255),
      ShiftRow(2, <<"t", "a", "g">>, <<>>, PyNone, MissingInt)>>

\* A shift that carries the name the Shift Matrix gives to absences
ClashingShifts ==
    <<ShiftRow(1, <<"A", "b", "w", "e", "s", "e", "n", "h", "e", "i", "t">>,
               <<"A", "W">>, <<"0", "8", ":", "0", "0">>, 255)>>

ShiftTables == {RegularShifts, IrregularShifts, ClashingShifts}

EmployeeRow(id, name, firstname, active) ==
    [id |-> id, name |-> name, firstname |-> firstname, active |-> active]

\* 5EMPL: employees 1 and 4 are active (empend is null), employee 2 has left.
Employees ==
    <<EmployeeRow(1, <<"H", "u", "b", "e", "r">>, <<"A", "n", "n", "a">>, TRUE),
      EmployeeRow(2, <<"M", "a", "i", "e", "r">>, <<"J", "o">>, FALSE),
      EmployeeRow(4, <<"K", "u", "r", "z">>, <<"E", "v", "a">>, TRUE)>>

\* ------------------------------------------------------------------------
\* Assignment records of 5MASHI, 5SPSHI, 5ABSEN and 5LEAVE
\* ------------------------------------------------------------------------

NoEmployee == 0      \* employee_id is None
NoShift    == 0      \* shift_id is None

Fact(e, date, s) == [employee_id |-> e, date |-> date, shift_id |-> s]

\* The dates assignment records carry.
OnDay10Iso   == StrValue(IsoFormat(2025, 6, 10))
OnDay10Slash == StrValue(UsSlashForm(2025, 6, 10))
OnDay10Date  == DateValue(2025, 6, 10)
OnDay5Time   == StrValue(IsoTimeForm(2025, 6, 5))
NextMonthIso == StrValue(IsoFormat(2025, 7, 1))
InvalidDay   == StrValue(EuSlashForm(2025, 2, 31))
TwoPartSlash == StrValue(<<"0", "6", "/", "2", "0", "2", "5">>)
NumberDate   == IntValue(20250610)

\* Written forms of 31 February: the shape is a known one, the date is none.
InvalidDates == {StrValue(s) : s \in WrittenForms(2025, 2, 31)}

PairDates == {OnDay10Iso, NextMonthIso, InvalidDay}
DeepDates == {OnDay10Iso, OnDay10Date}
AllDates  == PairDates \cup DeepDates \cup InvalidDates
                 \cup {OnDay10Slash, OnDay5Time, TwoPartSlash, NumberDate,
                       DatetimeValue(2025, 6, 5), NoneValue}

\* Tables with n assignment records in all, employees from E, dates from D,
\* shifts from S.
Splits(n) == {k \in (0..n) \X (0..n) \X (0..n) \X (0..n) : k[1] + k[2] + k[3] + k[4] = n}

TablesOfSize(n, E, D, S) ==
    LET shiftFacts == {Fact(e, d, s) : e \in E, d \in D, s \in S}
        plainFacts == {Fact(e, d, NoShift) : e \in E, d \in D}
    IN  UNION {{[MASHI |-> m, SPSHI |-> sp, ABSEN |-> a, LEAVE |-> l] :
                   m \in [1..k[1] -> shiftFacts], sp \in [1..k[2] -> shiftFacts],
                   a \in [1..k[3] -> plainFacts], l \in [1..k[4] -> plainFacts]} :
               k \in Splits(n)}

MaxWideFacts == 2
MaxDeepFacts == 3

\* The table contents considered: any single record; up to MaxWideFacts
\* records of mixed dates; up to MaxDeepFacts records of one employee on one
\* day.
AssignmentTables ==
    UNION {TablesOfSize(n, {NoEmployee, 1, 2, 3}, AllDates, {1, 2, 9}) : n \in 0..1}
    \cup UNION {TablesOfSize(n, {1, 3}, PairDates, {1}) : n \in 2..MaxWideFacts}
    \cup UNION {TablesOfSize(n, {1}, DeepDates, {1, 2}) : n \in 2..MaxDeepFacts}

Pending == NoDate("pending", "none")

NoResponse == [status |-> 0, view |-> "none", body |-> <<>>]

VARIABLES
    tables,       \* self.engine: the loaded tables, read-only after construction
    pc,           \* the handler at work, "idle" between requests
    request,      \* the query parameters of the request at work
    assignments,  \* the combined assignment list the handler iterates
    idx,          \* how many of them the loop has processed
    work,         \* the structure the loop builds: employee_schedules,
                  \* shift_matrix or date_assignments (months, which the Year
                  \* Grid sets up before its loop and writes after it, is
                  \* built when the handler returns)
    date_parse_errors,  \* get_einsatzplan's counter of that name
    response,     \* the last response sent
    date_value,   \* the date value under normalisation
    normalized,   \* what each view's parsing made of it
    first_sent    \* history: per employee, the first Year Grid sent for them

vars == <<tables, pc, request, assignments, idx, work, date_parse_errors, response,
          date_value, normalized, first_sent>>

handlerVars == <<tables, pc, request, assignments, idx, work, date_parse_errors, response,
                 first_sent>>

NoBody == <<>>

\* No Year Grid has been sent for any employee
NothingSent == [e \in {Employees[k].id : k \in 1..Len(Employees)} |-> NoBody]

NoRequest == [view |-> "none", year |-> 0, month |-> 0, employee_id |-> 0, limit |-> 0]

Idle ==
    /\ pc = "idle"
    /\ request = NoRequest
    /\ assignments = <<>>
    /\ idx = 0
    /\ work = <<>>
    /\ date_parse_errors = 0
    /\ response = NoResponse
    /\ first_sent = NothingSent

Init ==
    /\ \E a \in AssignmentTables, s \in ShiftTables :
          tables = [MASHI |-> a.MASHI, SPSHI |-> a.SPSHI, ABSEN |-> a.ABSEN,
                    LEAVE |-> a.LEAVE, SHIFT |-> s, EMPL |-> Employees]
    /\ Idle
    /\ date_value = NoneValue
    /\ normalized = [dienstplan |-> Pending, einsatzplan |-> Pending, jahres |-> Pending]

InitDate ==
    /\ tables = [MASHI |-> <<>>, SPSHI |-> <<>>, ABSEN |-> <<>>, LEAVE |-> <<>>,
                 SHIFT |-> RegularShifts, EMPL |-> Employees]
    /\ Idle
    /\ date_value \in ProbeValues
    /\ normalized = [dienstplan |-> Pending, einsatzplan |-> Pending, jahres |-> Pending]

\* ------------------------------------------------------------------------
\* What the handlers share
\* ------------------------------------------------------------------------

RequestYear   == 2025
RequestMonths == {6, 7}
NoLimit       == 0          \* limit is None
Limits        == {NoLimit, 1}

\* a <= b for two datetime.date values
DateLE(a, b) ==
    \/ a.y < b.y
    \/ a.y = b.y /\ a.m < b.m
    \/ a.y = b.y /\ a.m = b.m /\ a.d <= b.d

\* The upper end of the window left unchecked
InWindowFrom(d, start_date, end_date) == DateLE(start_date, d)

\* start_date <= d <= end_date
InWindow(d, start_date, end_date) == DateLE(start_date, d) /\ DateLE(d, end_date)

Ymd(y, m, d) == [y |-> y, m |-> m, d |-> d]

\* {s['id']: s for s in rows}.get(shift_id, {})
ShiftDefinition(rows, shift_id) ==
    IF \E k \in 1..Len(rows) : rows[k].id = shift_id
    THEN rows[CHOOSE k \in 1..Len(rows) :
                 rows[k].id = shift_id /\ \A j \in (k + 1)..Len(rows) : rows[j].id # shift_id]
    ELSE EmptyDict

\* shift_def.get(key) without its default
IntOrNone(v, default) == v

IntOr(v, default) == IF v = MissingInt THEN default ELSE v

\* raise HTTPException(status_code=500, ...) from the handler's except clause
ServerError(view) == [status |-> 500, view |-> view, body |-> <<>>]

Tagschicht == <<"T", "a", "g", "s", "c", "h", "i", "c", "h", "t">>

\* ------------------------------------------------------------------------
\* GET /schedule/dienstplan : the Month Grid
\* ------------------------------------------------------------------------

\* shift_def.get('shortname') or shift_def.get('name', 'T')[:1]
\*     if shift_def.get('name') else 'T'
DienstplanShiftCode(shift_def) ==
    IF TruthyText(shift_def.name)
    THEN IF TruthyText(shift_def.shortname) THEN shift_def.shortname
         ELSE Slice(shift_def.name, 1)
    ELSE <<"T">>

DienstplanCell(shift, d, shift_def) ==
    [shift_id   |-> shift.shift_id,
     shift_code |-> DienstplanShiftCode(shift_def),
     shift_name |-> Get(shift_def.name, Tagschicht),
     date       |-> IsoFormat(d.y, d.m, d.d),
     colors     |-> [bar        |-> IntOr(shift_def.colorbar, 65535),
                     background |-> IntOr(shift_def.colorbk, 65535),
                     text       |-> IntOr(shift_def.colortext, 0)]]

\* The list without the filter "empend is null"
DienstplanEmployeesEveryone(limit) ==
    LET kept == IF limit # NoLimit /\ limit < Len(Employees)
                THEN SubSeq(Employees, 1, limit) ELSE Employees
    IN  [k \in 1..Len(kept) |-> [employee |-> kept[k], schedule |-> <<>>]]

\* The list with "emp['active'] = False" written into each employee record
DienstplanEmployeesRetired(limit) ==
    LET active == SelectSeq(Employees, LAMBDA e : e.active)
        kept   == IF limit # NoLimit /\ limit < Len(active)
                  THEN SubSeq(active, 1, limit) ELSE active
    IN  [k \in 1..Len(kept) |->
           [employee |-> [kept[k] EXCEPT !.active = FALSE], schedule |-> <<>>]]

\* employees[:limit] of the active employees, each with an empty schedule
DienstplanEmployees(limit) ==
    LET active == SelectSeq(Employees, LAMBDA e : e.active)
        kept   == IF limit # NoLimit /\ limit < Len(active)
                  THEN SubSeq(active, 1, limit) ELSE active
    IN  [k \in 1..Len(kept) |-> [employee |-> kept[k], schedule |-> <<>>]]

\* schedule.setdefault(day, cell)
PutDayOnce(schedule, day, cell) ==
    [k \in (DOMAIN schedule) \cup {day} |-> IF k \in DOMAIN schedule THEN schedule[k] ELSE cell]

\* schedule[day] = cell
PutDay(schedule, day, cell) ==
    [k \in (DOMAIN schedule) \cup {day} |-> IF k = day THEN cell ELSE schedule[k]]

\* One pass of the loop "for shift in shift_assignments": the schedules after
\* it, or the TypeError of comparing a date with a value that is none.
DienstplanStepOn(schedules, shift, req, shift_rows, r) ==
    LET known == \E k \in 1..Len(schedules) : schedules[k].employee.id = shift.employee_id
        last  == DaysInMonth(req.year, req.month)
    IN  IF ~known \/ r.kind \in {"absent", "error"}
        THEN [abort |-> FALSE, schedules |-> schedules]
        ELSE IF r.kind = "raw"
        THEN [abort |-> TRUE, schedules |-> schedules]
        ELSE IF InWindow(r, Ymd(req.year, req.month, 1), Ymd(req.year, req.month, last))
        THEN [abort |-> FALSE,
              schedules |->
                [k \in 1..Len(schedules) |->
                   IF schedules[k].employee.id = shift.employee_id
                   THEN [employee |-> schedules[k].employee,
                         schedule |-> PutDay(schedules[k].schedule, r.d,
                                             DienstplanCell(shift, r,
                                                ShiftDefinition(shift_rows, shift.shift_id)))]
                   ELSE schedules[k]]]
        ELSE [abort |-> FALSE, schedules |-> schedules]

DienstplanStep(schedules, shift, req, shift_rows) ==
    DienstplanStepOn(schedules, shift, req, shift_rows, DienstplanNormalize(shift.date))

DienstplanStart ==
    /\ pc = "idle"
    /\ \E month \in RequestMonths, limit \in Limits :
          /\ request' = [view |-> "dienstplan", year |-> RequestYear, month |-> month,
                         employee_id |-> 0, limit |-> limit]
          /\ work' = DienstplanEmployees(limit)
    /\ assignments' = tables.MASHI \o tables.SPSHI
    /\ idx' = 0
    /\ pc' = "dienstplan"
    /\ response' = NoResponse
    /\ date_parse_errors' = 0
    /\ UNCHANGED <<tables, first_sent, date_value, normalized>>

\* The loop goes on with the next record, or the handler's "except Exception"
\* answers 500.
DienstplanAdvance(step) ==
    IF step.abort
    THEN /\ response' = ServerError("dienstplan")
         /\ pc' = "idle"
         /\ assignments' = <<>>
         /\ idx' = 0
         /\ work' = <<>>
    ELSE /\ work' = step.schedules
         /\ idx' = idx + 1
         /\ UNCHANGED <<pc, assignments, response>>

DienstplanLoop ==
    /\ pc = "dienstplan"
    /\ idx < Len(assignments)
    /\ DienstplanAdvance(DienstplanStep(work, assignments[idx + 1], request, tables.SHIFT))
    /\ UNCHANGED <<tables, first_sent, request, date_parse_errors, date_value, normalized>>

DienstplanReturn ==
    /\ pc = "dienstplan"
    /\ idx = Len(assignments)
    /\ response' = [status |-> 200, view |-> "dienstplan",
                    body |-> [year |-> request.year, month |-> request.month,
                              days_in_month |-> DaysInMonth(request.year, request.month),
                              employees |-> work]]
    /\ pc' = "idle"
    /\ assignments' = <<>>
    /\ idx' = 0
    /\ work' = <<>>
    /\ UNCHANGED <<tables, first_sent, request, date_parse_errors, date_value, normalized>>

\* ------------------------------------------------------------------------
\* GET /schedule/einsatzplan : the Shift Matrix
\* ------------------------------------------------------------------------

Abwesenheit      == <<"A", "b", "w", "e", "s", "e", "n", "h", "e", "i", "t">>
UnbekannteSchicht == <<"U", "n", "b", "e", "k", "a", "n", "n", "t", "e", " ",
                       "S", "c", "h", "i", "c", "h", "t">>
Unknown          == <<"U", "n", "k", "n", "o", "w", "n">>
Midnight         == <<"0", "0", ":", "0", "0">>

\* {'name': 'Abwesenheit', 'startend0': '00:00', 'duration0': 0}
AbsenceDefinition ==
    [id |-> 0, name |-> Abwesenheit, shortname |-> Missing, startend0 |-> Midnight,
     colorbar |-> MissingInt, colorbk |-> MissingInt, colortext |-> MissingInt]

Typed(rows, type) ==
    [k \in 1..Len(rows) |->
       [employee_id |-> rows[k].employee_id, date |-> rows[k].date,
        shift_id |-> rows[k].shift_id, type |-> type]]

\* "Convert absences to shift-like format for display"
AbsenceAssignments(absences) ==
    [k \in 1..Len(absences) |->
       [employee_id |-> absences[k].employee_id, date |-> absences[k].date,
        shift_id |-> 99999, type |-> "absence"]]

\* spshi_assignments + mashi_assignments + absence_assignments
EinsatzplanAssignmentsSpecialFirst(tb) ==
    Typed(tb.SPSHI, "row") \o Typed(tb.MASHI, "row") \o AbsenceAssignments(tb.ABSEN)

\* mashi_assignments + spshi_assignments + absence_assignments
EinsatzplanAssignments(tb) ==
    Typed(tb.MASHI, "row") \o Typed(tb.SPSHI, "row") \o AbsenceAssignments(tb.ABSEN)

\* employee.get('name') and employee.get('firstname') without their defaults
EmployeeEntryNoDefault(employee_id) ==
    IF \E k \in 1..Len(Employees) : Employees[k].id = employee_id
    THEN LET e == Employees[CHOOSE k \in 1..Len(Employees) : Employees[k].id = employee_id]
         IN  [id |-> employee_id, name |-> e.name, firstname |-> e.firstname]
    ELSE [id |-> employee_id, name |-> PyNone, firstname |-> PyNone]

\* employees_dict.get(employee_id, {}) rendered as the cell entry
EmployeeEntry(employee_id) ==
    IF \E k \in 1..Len(Employees) : Employees[k].id = employee_id
    THEN LET e == Employees[CHOOSE k \in 1..Len(Employees) : Employees[k].id = employee_id]
         IN  [id |-> employee_id, name |-> e.name, firstname |-> e.firstname]
    ELSE [id |-> employee_id, name |-> Unknown, firstname |-> <<>>]

\* shift_matrix[shift_name]['days'][day].append(entry), creating the row and
\* the day list when they are not there
MatrixAppend(matrix, shift_name, shift_def, day, entry) ==
    LET withRow == IF \E k \in 1..Len(matrix) : matrix[k].name = shift_name
                   THEN matrix
                   ELSE Append(matrix, [name |-> shift_name,
                                        shift_definition |-> shift_def,
                                        days |-> <<>>])
        DaysWith(days) ==
            [j \in (DOMAIN days) \cup {day} |->
               IF j # day THEN days[j]
               ELSE IF day \in DOMAIN days THEN Append(days[day], entry)
               ELSE <<entry>>]
    IN  [k \in 1..Len(withRow) |->
           IF withRow[k].name = shift_name
           THEN [name |-> withRow[k].name,
                 shift_definition |-> withRow[k].shift_definition,
                 days |-> DaysWith(withRow[k].days)]
           ELSE withRow[k]]

\* A date that raised ValueError or TypeError, or is neither a string nor a
\* date: "date_parse_errors += 1; continue"
DateParseErrorUncounted(matrix) == [abort |-> FALSE, matrix |-> matrix, errors |-> 0]

DateParseError(matrix) == [abort |-> FALSE, matrix |-> matrix, errors |-> 1]

\* The else of "if start_date <= shift_date <= end_date": "date_parse_errors += 1"
OutsideMonth(matrix) == [abort |-> FALSE, matrix |-> matrix, errors |-> 1]

\* One pass of the loop "for i, shift in enumerate(shift_assignments)":
\* the matrix after it, what it adds to date_parse_errors, or the exception
\* that leaves the loop (TypeError of comparing a str with a date,
\* AttributeError of None.upper()).
EinsatzplanStepOn(matrix, shift, req, shift_rows, r) ==
    LET last == DaysInMonth(req.year, req.month)
        shift_def  == IF shift.type = "absence" THEN AbsenceDefinition
                      ELSE ShiftDefinition(shift_rows, shift.shift_id)
        shift_name == IF shift.type = "absence" THEN Abwesenheit
                      ELSE Get(shift_def.name, UnbekannteSchicht)
    IN  IF r.kind = "absent"
        THEN [abort |-> FALSE, matrix |-> matrix, errors |-> 0]
        ELSE IF r.kind \in {"error", "skip"}
        THEN DateParseError(matrix)
        ELSE IF r.kind = "raw"
        THEN [abort |-> TRUE, matrix |-> matrix, errors |-> 0]
        ELSE IF InWindow(r, Ymd(req.year, req.month, 1), Ymd(req.year, req.month, last))
        THEN IF shift_name = PyNone
             THEN [abort |-> TRUE, matrix |-> matrix, errors |-> 0]
             ELSE [abort |-> FALSE,
                   matrix |-> MatrixAppend(matrix, shift_name, shift_def, r.d,
                                           EmployeeEntry(shift.employee_id)),
                   errors |-> 0]
        ELSE OutsideMonth(matrix)

EinsatzplanStep(matrix, shift, req, shift_rows) ==
    EinsatzplanStepOn(matrix, shift, req, shift_rows, EinsatzplanNormalize(shift.date))

\* shift_matrix[x]['shift_definition'].get('startend0', '00:00')
StartKey(row) == Get(row.shift_definition.startend0, Midnight)

\* sorted(rows, key=StartKey): stable, ascending
RECURSIVE SortedByStart(_)
SortedByStart(rows) ==
    IF rows = <<>> THEN <<>>
    ELSE LET k == CHOOSE j \in 1..Len(rows) :
                     /\ \A h \in 1..Len(rows) : ~StrLess(StartKey(rows[h]), StartKey(rows[j]))
                     /\ \A h \in 1..(j - 1) : StartKey(rows[h]) # StartKey(rows[j])
         IN  <<rows[k]>> \o SortedByStart(SubSeq(rows, 1, k - 1) \o SubSeq(rows, k + 1, Len(rows)))

\* '<' between a None key and another key raises TypeError
SortRaises(rows) ==
    Len(rows) >= 2 /\ \E k \in 1..Len(rows) : StartKey(rows[k]) = PyNone

EinsatzplanStart ==
    /\ pc = "idle"
    /\ \E month \in RequestMonths :
          request' = [view |-> "einsatzplan", year |-> RequestYear, month |-> month,
                      employee_id |-> 0, limit |-> NoLimit]
    /\ assignments' = EinsatzplanAssignments(tables)
    /\ idx' = 0
    /\ work' = <<>>
    /\ date_parse_errors' = 0
    /\ pc' = "einsatzplan"
    /\ response' = NoResponse
    /\ UNCHANGED <<tables, first_sent, date_value, normalized>>

EinsatzplanAdvance(step) ==
    IF step.abort
    THEN /\ response' = ServerError("einsatzplan")
         /\ pc' = "idle"
         /\ assignments' = <<>>
         /\ idx' = 0
         /\ work' = <<>>
         /\ UNCHANGED date_parse_errors
    ELSE /\ work' = step.matrix
         /\ date_parse_errors' = date_parse_errors + step.errors
         /\ idx' = idx + 1
         /\ UNCHANGED <<pc, assignments, response>>

EinsatzplanLoop ==
    /\ pc = "einsatzplan"
    /\ idx < Len(assignments)
    /\ EinsatzplanAdvance(EinsatzplanStep(work, assignments[idx + 1], request, tables.SHIFT))
    /\ UNCHANGED <<tables, first_sent, request, date_value, normalized>>

EinsatzplanReturn ==
    /\ pc = "einsatzplan"
    /\ idx = Len(assignments)
    /\ response' = IF SortRaises(work) THEN ServerError("einsatzplan")
                   ELSE [status |-> 200, view |-> "einsatzplan",
                         body |-> [year |-> request.year, month |-> request.month,
                                   days_in_month |-> DaysInMonth(request.year, request.month),
                                   shifts |-> SortedByStart(work)]]
    /\ pc' = "idle"
    /\ assignments' = <<>>
    /\ idx' = 0
    /\ work' = <<>>
    /\ UNCHANGED <<tables, first_sent, request, date_parse_errors, date_value, normalized>>

\* ------------------------------------------------------------------------
\* GET /schedule/jahresuebersicht : the Year Grid
\* ------------------------------------------------------------------------

RequestEmployees == {1, 2, 3}

\* german_months (with ae for a-umlaut)
GermanMonths ==
    <<"Jaenner", "Februar", "Maerz", "April", "Mai", "Juni",
      "Juli", "August", "September", "Oktober", "November", "Dezember">>

\* str(day)
DayKey(day) == Unpadded(day)

InitialMonthsFresh ==
    [n \in 1..12 |->
       [month |-> n, name |-> GermanMonths[n],
        days  |-> [k \in {DayKey(day) : day \in 1..31} |-> PyNone]]]

\* The months structure of an earlier call used again, not built anew
InitialMonthsLeftOver ==
    LET sent == {e \in DOMAIN first_sent : first_sent[e] # NoBody}
    IN  IF sent = {} THEN InitialMonthsFresh
        ELSE first_sent[CHOOSE e \in sent : \A f \in sent : e <= f].body.months

\* range(1, days_in_month + 1) in place of range(1, 32)
InitialMonthsRealDays ==
    [n \in 1..12 |->
       [month |-> n, name |-> GermanMonths[n],
        days  |-> [k \in {DayKey(day) : day \in 1..DaysInMonth(RequestYear, n)} |-> PyNone]]]

\* "Initialize months structure": every month with the days '1'..'31' at None
InitialMonths ==
    [n \in 1..12 |->
       [month |-> n, name |-> GermanMonths[n],
        days  |-> [k \in {DayKey(day) : day \in 1..31} |-> PyNone]]]

OfEmployee(rows, employee_id) ==
    SelectSeq(rows, LAMBDA r : r.employee_id = employee_id)

\* The four loops that fill all_assignments: the records with a truthy date,
\* each with the type and priority of its table.
Prioritized(rows, type, priority) ==
    LET dated == SelectSeq(rows, LAMBDA r : Truthy(r.date))
    IN  [k \in 1..Len(dated) |->
           [date     |-> dated[k].date,
            shift_id |-> IF type \in {"main", "special"} THEN dated[k].shift_id ELSE NoShift,
            type     |-> type,
            priority |-> priority]]

AllAssignments(tb, employee_id) ==
    Prioritized(OfEmployee(tb.MASHI, employee_id), "main", 1)
    \o Prioritized(OfEmployee(tb.SPSHI, employee_id), "special", 2)
    \o Prioritized(OfEmployee(tb.ABSEN, employee_id), "absence", 3)
    \o Prioritized(OfEmployee(tb.LEAVE, employee_id), "leave", 4)

\* The comparison of priorities left out: the first fact of a day is kept.
SupersedesFirstSeen(date_assignments, date_key, assignment) ==
    date_key \notin DOMAIN date_assignments

\* if date_key not in date_assignments
\*    or assignment['priority'] > date_assignments[date_key]['priority']
Supersedes(date_assignments, date_key, assignment) ==
    \/ date_key \notin DOMAIN date_assignments
    \/ assignment.priority > date_assignments[date_key].priority

\* The pass with "date_assignments = {}" inside the loop
JahresStepOnFreshMap(date_assignments, assignment, req, r) ==
    IF r.kind = "date" /\ InWindow(r, Ymd(req.year, 1, 1), Ymd(req.year, 12, 31))
    THEN [k \in {IsoFormat(r.y, r.m, r.d)} |-> assignment]
    ELSE date_assignments

\* One pass of the loop "for assignment in all_assignments"
JahresStepOn(date_assignments, assignment, req, r) ==
    LET date_key == IsoFormat(r.y, r.m, r.d)
    IN  IF r.kind = "date"
           /\ InWindow(r, Ymd(req.year, 1, 1), Ymd(req.year, 12, 31))
           /\ Supersedes(date_assignments, date_key, assignment)
        THEN [k \in (DOMAIN date_assignments) \cup {date_key} |->
                IF k = date_key THEN assignment ELSE date_assignments[k]]
        ELSE date_assignments

JahresStep(date_assignments, assignment, req) ==
    JahresStepOn(date_assignments, assignment, req, JahresNormalize(assignment.date))

\* The first character of the name only, as it is
JahresShiftCodeOneChar(shift_def) ==
    IF TruthyText(shift_def.shortname) THEN shift_def.shortname
    ELSE IF TruthyText(shift_def.name) THEN Slice(shift_def.name, 1)
    ELSE <<"T">>

\* "Use shortname if available, otherwise first 2 characters of name"
JahresShiftCode(shift_def) ==
    IF TruthyText(shift_def.shortname) THEN shift_def.shortname
    ELSE IF TruthyText(shift_def.name) THEN Upper(Slice(shift_def.name, 2))
    ELSE <<"T">>

\* What the "Apply the final assignments" loop writes for one assignment
\* (nothing for a type it does not know).
JahresCode(assignment, shift_rows) ==
    CASE assignment.type = "absence" -> <<"A", "B">>
      [] assignment.type = "leave"   -> <<"U", "A">>
      [] assignment.type \in {"main", "special"} ->
            JahresShiftCode(ShiftDefinition(shift_rows, assignment.shift_id))
      [] OTHER -> PyNone

\* months[month_idx]['days'][day_str] = code, for the date parsed back from
\* the key
WriteDay(months, parsed_date, code) ==
    IF code = PyNone THEN months
    ELSE [months EXCEPT ![parsed_date.m].days[DayKey(parsed_date.d)] = code]

\* months after the loop "for date_key, assignment in date_assignments.items()"
RECURSIVE AppliedMonths(_, _, _)
AppliedMonths(months, date_assignments, shift_rows) ==
    IF DOMAIN date_assignments = {} THEN months
    ELSE LET date_key == CHOOSE dk \in DOMAIN date_assignments : TRUE
             rest     == [dk \in (DOMAIN date_assignments) \ {date_key} |->
                            date_assignments[dk]]
         IN  AppliedMonths(WriteDay(months, Strptime(date_key, FmtIso, "iso"),
                                    JahresCode(date_assignments[date_key], shift_rows)),
                           rest, shift_rows)

BuiltinLegend ==
    (<<"S", "D">> :> "Spaetdienst") @@ (<<"F", "D">> :> "Fruehdienst")
    @@ (<<"U", "A">> :> "Urlaub") @@ (<<"A", "B">> :> "Abwesenheit")
    @@ (<<"S", "P">> :> "Special") @@ (<<"M", "N">> :> "Manual")

\* "Add shift-specific entries to legend based on available shift definitions"
RECURSIVE LegendWith(_, _)
LegendWith(legend, shift_rows) ==
    IF shift_rows = <<>> THEN legend
    ELSE LET shift_def == Head(shift_rows)
             shortname == shift_def.shortname
         IN  IF TruthyText(shortname) /\ shortname \notin DOMAIN legend
             THEN LegendWith(legend @@ (shortname :> Get(shift_def.name, shortname)),
                             Tail(shift_rows))
             ELSE LegendWith(legend, Tail(shift_rows))

\* engine.query().select("5EMPL").where("id", "=", employee_id)
EmployeesWithId(employee_id) == SelectSeq(Employees, LAMBDA e : e.id = employee_id)

JahresStart ==
    /\ pc = "idle"
    /\ \E employee_id \in RequestEmployees :
          /\ request' = [view |-> "jahres", year |-> RequestYear, month |-> 0,
                         employee_id |-> employee_id, limit |-> NoLimit]
          /\ IF EmployeesWithId(employee_id) = <<>>
             \* HTTPException(404) is raised inside the try block, whose
             \* "except Exception" turns it into the 500 response
             THEN /\ response' = ServerError("jahres")
                  /\ pc' = "idle"
                  /\ assignments' = <<>>
                  /\ work' = <<>>
             ELSE /\ response' = NoResponse
                  /\ pc' = "jahres"
                  /\ assignments' = AllAssignments(tables, employee_id)
                  /\ work' = <<>>
    /\ idx' = 0
    /\ date_parse_errors' = 0
    /\ UNCHANGED <<tables, first_sent, date_value, normalized>>

JahresLoop ==
    /\ pc = "jahres"
    /\ idx < Len(assignments)
    /\ work' = JahresStep(work, assignments[idx + 1], request)
    /\ idx' = idx + 1
    /\ UNCHANGED <<tables, first_sent, pc, request, assignments, date_parse_errors, response,
                   date_value, normalized>>

\* The return statement: months written from date_assignments, and the legend
JahresRespond ==
    /\ pc = "jahres"
    /\ idx = Len(assignments)
    /\ LET employee == EmployeesWithId(request.employee_id)[1]
       IN  response' =
             [status |-> 200, view |-> "jahres",
              body |-> [employee |-> [id |-> employee.id, firstName |-> employee.firstname,
                                      lastName |-> employee.name],
                        year     |-> request.year,
                        months   |-> AppliedMonths(InitialMonths, work, tables.SHIFT),
                        legend   |-> LegendWith(BuiltinLegend, tables.SHIFT)]]
    /\ pc' = "idle"
    /\ assignments' = <<>>
    /\ idx' = 0
    /\ work' = <<>>
    /\ UNCHANGED <<tables, request, date_parse_errors, date_value, normalized>>

JahresReturn == JahresRespond /\ UNCHANGED first_sent

\* The same return, with the history kept: the body of the first Year Grid
\* sent for the employee, and whether another one has been sent since
JahresReturnRemembered ==
    /\ JahresRespond
    /\ first_sent' =
          [first_sent EXCEPT ![request.employee_id] =
              IF first_sent[request.employee_id] = NoBody
              THEN [body |-> response'.body, again |-> FALSE]
              ELSE [body |-> first_sent[request.employee_id].body, again |-> TRUE]]

Next ==
    \/ DienstplanStart
    \/ DienstplanLoop
    \/ DienstplanReturn
    \/ EinsatzplanStart
    \/ EinsatzplanLoop
    \/ EinsatzplanReturn
    \/ JahresStart
    \/ JahresLoop
    \/ JahresReturn

Spec == Init /\ [][Next]_vars

\* The handlers, with the history of the Year Grids sent
NextTwice ==
    \/ DienstplanStart
    \/ DienstplanLoop
    \/ DienstplanReturn
    \/ EinsatzplanStart
    \/ EinsatzplanLoop
    \/ EinsatzplanReturn
    \/ JahresStart
    \/ JahresLoop
    \/ JahresReturnRemembered

\* The table contents the history is followed over: any single record, and
\* any two records of employee 1 on one day.
TwiceTables ==
    UNION {TablesOfSize(n, {NoEmployee, 1, 2, 3}, AllDates, {1, 2, 9}) : n \in 0..1}
    \cup TablesOfSize(2, {1}, DeepDates, {1, 2})

InitTwice ==
    /\ \E a \in TwiceTables :
          tables = [MASHI |-> a.MASHI, SPSHI |-> a.SPSHI, ABSEN |-> a.ABSEN,
                    LEAVE |-> a.LEAVE, SHIFT |-> RegularShifts, EMPL |-> Employees]
    /\ Idle
    /\ date_value = NoneValue
    /\ normalized = [dienstplan |-> Pending, einsatzplan |-> Pending, jahres |-> Pending]

SpecTwice == InitTwice /\ [][NextTwice]_vars

NormalizeForDienstplan ==
    /\ normalized.dienstplan = Pending
    /\ normalized' = [normalized EXCEPT !.dienstplan = DienstplanNormalize(date_value)]
    /\ UNCHANGED <<date_value, handlerVars>>

NormalizeForEinsatzplan ==
    /\ normalized.einsatzplan = Pending
    /\ normalized' = [normalized EXCEPT !.einsatzplan = EinsatzplanNormalize(date_value)]
    /\ UNCHANGED <<date_value, handlerVars>>

NormalizeForJahres ==
    /\ normalized.jahres = Pending
    /\ normalized' = [normalized EXCEPT !.jahres = JahresNormalize(date_value)]
    /\ UNCHANGED <<date_value, handlerVars>>

NextDate ==
    \/ NormalizeForDienstplan
    \/ NormalizeForEinsatzplan
    \/ NormalizeForJahres

SpecDate == InitDate /\ [][NextDate]_vars

\* ========================================================================
\* Properties
\* ========================================================================

YearGridSent == response.view = "jahres" /\ response.status = 200
MonthGridSent == response.view = "dienstplan" /\ response.status = 200
ShiftMatrixSent == response.view = "einsatzplan" /\ response.status = 200

\* The reconciliation loop run over the facts in the order p, each with the
\* date its parsing gave
RECURSIVE Reconciled(_, _, _, _, _, _)
Reconciled(date_assignments, all_assignments, parsed, p, i, req) ==
    IF i > Len(all_assignments) THEN date_assignments
    ELSE Reconciled(JahresStepOn(date_assignments, all_assignments[p[i]], req, parsed[p[i]]),
                    all_assignments, parsed, p, i + 1, req)

Orders(n) == {p \in [1..n -> 1..n] : \A i, j \in 1..n : i # j => p[i] # p[j]}

\* The positions in all_assignments of the facts that the Year Grid's parser
\* dates in the requested year
DatedFacts(all_assignments, parsed, year) ==
    {k \in 1..Len(all_assignments) : parsed[k].kind = "date" /\ parsed[k].y = year}

MaxPriority(all_assignments, ks) ==
    CHOOSE p \in {all_assignments[k].priority : k \in ks} :
        \A k \in ks : all_assignments[k].priority <= p

\* C1: in the Year Grid sent, every date of the year that some fact of the
\* employee is dated on shows the code of a fact of the highest priority among
\* the facts of that day (the leave code when one of them is a Leave fact), the
\* reconciliation keeps a fact of that priority for the date whatever order the
\* facts come in, and a date with no fact shows the default.
C1_YearGridShowsHighestPriority ==
    YearGridSent =>
      \A all \in {AllAssignments(tables, request.employee_id)} :
      \A parsed \in {[k \in 1..Len(all) |-> JahresNormalize(all[k].date)]} :
      \A dated \in {DatedFacts(all, parsed, request.year)} :
      LET OnDayOf(k) == {j \in dated : parsed[j].m = parsed[k].m /\ parsed[j].d = parsed[k].d}
      IN  /\ \A k \in dated :
                LET slot == response.body.months[parsed[k].m].days[DayKey(parsed[k].d)]
                IN  /\ \E w \in OnDayOf(k) :
                          /\ all[w].priority = MaxPriority(all, OnDayOf(k))
                          /\ slot = JahresCode(all[w], tables.SHIFT)
                    /\ (\E j \in OnDayOf(k) : all[j].type = "leave") => slot = <<"U", "A">>
          /\ \A p \in Orders(Len(all)) :
                \A kept \in {Reconciled(<<>>, all, parsed, p, 1, request)} :
                   \A k \in dated :
                      LET key == IsoFormat(parsed[k].y, parsed[k].m, parsed[k].d)
                      IN  /\ key \in DOMAIN kept
                          /\ kept[key].priority = MaxPriority(all, OnDayOf(k))
          /\ \A m \in 1..12 : \A d \in 1..DaysInMonth(request.year, m) :
                response.body.months[m].days[DayKey(d)] # PyNone
                => \E k \in dated : parsed[k].m = m /\ parsed[k].d = d

\* C1 witness: a Year Grid sent for a day that has a Leave fact and a fact of
\* another kind, showing the leave code.
C1_Witness ==
    /\ YearGridSent
    /\ LET all == AllAssignments(tables, request.employee_id)
       IN  /\ \E j, k \in 1..Len(all) :
                 /\ all[j].type = "leave" /\ all[k].type = "main"
                 /\ JahresNormalize(all[j].date) = JahresNormalize(all[k].date)
                 /\ JahresNormalize(all[j].date).kind = "date"
           /\ response.body.months[6].days[DayKey(10)] = <<"U", "A">>

\* C2 (as claimed): when the Year Grid's pass over the facts is done and all
\* the facts of a day are of one kind, the fact stored for that day is the one
\* that comes last in input order.
C2_SameKindLastSeenWins ==
    (pc = "jahres" /\ idx = Len(assignments)) =>
      LET parsed == [k \in 1..Len(assignments) |-> JahresNormalize(assignments[k].date)]
          dated  == DatedFacts(assignments, parsed, request.year)
          OnDayOf(k) == {j \in dated : parsed[j].m = parsed[k].m /\ parsed[j].d = parsed[k].d}
      IN  \A k \in dated :
            (\A i, j \in OnDayOf(k) : assignments[i].type = assignments[j].type) =>
               work[IsoFormat(parsed[k].y, parsed[k].m, parsed[k].d)]
                   = assignments[CHOOSE l \in OnDayOf(k) : \A j \in OnDayOf(k) : j <= l]

\* The cell of employee e on day d in a Month Grid body (<<>> when absent)
MonthCells(body, e, d) ==
    {body.employees[k].schedule[d] :
        k \in {j \in 1..Len(body.employees) :
                  body.employees[j].employee.id = e /\ d \in DOMAIN body.employees[j].schedule}}

\* C3 (as claimed): in the Month Grid sent, the cell of an employee on a day
\* for which 5ABSEN holds an absence of that employee shows the absence label,
\* not a shift.
C3_MonthGridShowsAbsence ==
    MonthGridSent =>
      \A a \in 1..Len(tables.ABSEN) :
        LET r == DienstplanNormalize(tables.ABSEN[a].date)
        IN  (r.kind = "date" /\ r.y = request.year /\ r.m = request.month) =>
              \A cell \in MonthCells(response.body, tables.ABSEN[a].employee_id, r.d) :
                 cell.shift_name = Abwesenheit

\* The rows of a Shift Matrix body that list employee e on day d
RowsListing(body, e, d) ==
    {k \in 1..Len(body.shifts) :
        /\ d \in DOMAIN body.shifts[k].days
        /\ \E i \in 1..Len(body.shifts[k].days[d]) : body.shifts[k].days[d][i].id = e}

\* C4 (as claimed): in the Shift Matrix sent, an employee listed under
\* 'Abwesenheit' on a day is listed under no other row on that day.
C4_MatrixListsWinnerOnly ==
    ShiftMatrixSent =>
      \A e \in {NoEmployee, 1, 2, 3} : \A d \in 1..response.body.days_in_month :
        (\E k \in RowsListing(response.body, e, d) :
            response.body.shifts[k].name = Abwesenheit)
        => Cardinality(RowsListing(response.body, e, d)) = 1

InLoop == pc \in {"dienstplan", "einsatzplan", "jahres"} /\ idx < Len(assignments)

\* C5 (as claimed): no pass of a projection's loop over the facts ends the
\* request in an error response, whatever the fact's date value is.
C5_NoDateValueAborts ==
    [][InLoop => response'.status # 500]_vars

ProbeDates == {ymd \in ProbeYears \X ProbeMonths \X ProbeDays : ValidDate(ymd[1], ymd[2], ymd[3])}

\* C7: the Shift Matrix's parser maps the ISO form, the ISO form with a time,
\* the month/day/year slash form, the dot form and the bare 8-digit form of a
\* calendar date to that date.
C7_EquivalentFormsOneDate ==
    \A ymd \in ProbeDates :
      (/\ normalized.einsatzplan # Pending
       /\ date_value \in {StrValue(IsoFormat(ymd[1], ymd[2], ymd[3])),
                          StrValue(IsoTimeForm(ymd[1], ymd[2], ymd[3])),
                          StrValue(UsSlashForm(ymd[1], ymd[2], ymd[3])),
                          StrValue(GermanForm(ymd[1], ymd[2], ymd[3])),
                          StrValue(BareForm(ymd[1], ymd[2], ymd[3]))})
      => /\ normalized.einsatzplan.kind = "date"
         /\ Ymd(normalized.einsatzplan.y, normalized.einsatzplan.m, normalized.einsatzplan.d)
               = Ymd(ymd[1], ymd[2], ymd[3])

\* C7 witness: "06/03/2025" has been normalised to 3 June 2025.
C7_Witness ==
    /\ date_value = StrValue(UsSlashForm(2025, 6, 3))
    /\ normalized.einsatzplan.kind = "date"
    /\ normalized.einsatzplan.m = 6 /\ normalized.einsatzplan.d = 3

\* C8 (as claimed): a date string the Shift Matrix's parser accepts is accepted
\* by the Month Grid's and the Year Grid's parser, with the same date.
C8_OneNormalizerForAllViews ==
    (/\ date_value.t = "str"
     /\ normalized.einsatzplan.kind = "date"
     /\ normalized.dienstplan # Pending
     /\ normalized.jahres # Pending)
    => \A other \in {normalized.dienstplan, normalized.jahres} :
          /\ other.kind = "date"
          /\ Ymd(other.y, other.m, other.d)
                = Ymd(normalized.einsatzplan.y, normalized.einsatzplan.m,
                      normalized.einsatzplan.d)

\* C9 (as claimed): the Shift Matrix's parser applies the ISO date rule, and
\* no other, to every string that contains '-' and no 'T'.
C9_DashMeansIsoRule ==
    (/\ date_value.t = "str"
     /\ Contains(date_value.s, "-") /\ ~Contains(date_value.s, "T")
     /\ normalized.einsatzplan # Pending)
    => normalized.einsatzplan.rule = "iso"

\* C10 (as claimed): when the Shift Matrix is sent, date_parse_errors is the
\* number of its input facts whose date failed to normalise.
C10_CounterCountsDateFailures ==
    ShiftMatrixSent =>
      LET all == EinsatzplanAssignments(tables)
      IN  date_parse_errors =
            Cardinality({k \in 1..Len(all) :
                            EinsatzplanNormalize(all[k].date).kind \in {"error", "skip"}})

\* C11 (as claimed): no entry of the Shift Matrix sent is derived from a
\* record without an employee_id.
C11_NoEntryWithoutEmployeeId ==
    ShiftMatrixSent =>
      \A k \in 1..Len(response.body.shifts) :
        \A d \in DOMAIN response.body.shifts[k].days :
          \A i \in 1..Len(response.body.shifts[k].days[d]) :
             response.body.shifts[k].days[d][i].id # NoEmployee

\* C12: the Year Grid sent has 12 month entries, numbered 1 to 12 in order,
\* each with exactly the day keys "1" to "31", and every slot of a day beyond
\* the month's length holds None.
C12_YearGridShape ==
    YearGridSent =>
      /\ Len(response.body.months) = 12
      /\ \A m \in 1..12 :
            /\ response.body.months[m].month = m
            /\ DOMAIN response.body.months[m].days = {DayKey(d) : d \in 1..31}
            /\ \A d \in 1..31 :
                  d > DaysInMonth(request.year, m)
                  => response.body.months[m].days[DayKey(d)] = PyNone

\* C12 witness: a Year Grid sent for an employee with a record dated
\* "2025-02-31".
C12_Witness ==
    /\ YearGridSent
    /\ \E k \in 1..Len(tables.MASHI) :
          /\ tables.MASHI[k].employee_id = request.employee_id
          /\ tables.MASHI[k].date = StrValue(IsoFormat(2025, 2, 31))
    /\ response.body.months[2].days[DayKey(31)] = PyNone

\* C13: in the Month Grid sent, every key of an employee's day mapping is a
\* day of the requested month on which a 5MASHI or 5SPSHI record of that
\* employee is dated, the cell carries that date, and an employee with no
\* record dated in the month has an empty mapping.
C13_MonthGridShape ==
    MonthGridSent =>
      \A facts \in {tables.MASHI \o tables.SPSHI} :
      \A parsed \in {[k \in 1..Len(facts) |-> DienstplanNormalize(facts[k].date)]} :
      \A e \in 1..Len(response.body.employees) :
        LET row  == response.body.employees[e]
            mine == {k \in 1..Len(facts) :
                        /\ facts[k].employee_id = row.employee.id
                        /\ parsed[k].kind = "date"
                        /\ parsed[k].y = request.year /\ parsed[k].m = request.month}
        IN  /\ \A d \in DOMAIN row.schedule :
                  /\ d \in 1..response.body.days_in_month
                  /\ \E k \in mine : parsed[k].d = d
                  /\ row.schedule[d].date = IsoFormat(request.year, request.month, d)
            /\ mine = {} => row.schedule = <<>>

\* C13 witness: a Month Grid sent for June in which an employee has day 10
\* only, with a record of that employee dated 1 July, and another employee
\* has no day.
C13_Witness ==
    /\ MonthGridSent
    /\ request.month = 6
    /\ \E e, f \in 1..Len(response.body.employees) :
          /\ DOMAIN response.body.employees[e].schedule = {10}
          /\ response.body.employees[f].schedule = <<>>
          /\ \E k \in 1..Len(tables.MASHI) :
                /\ tables.MASHI[k].employee_id = response.body.employees[e].employee.id
                /\ tables.MASHI[k].date = NextMonthIso

\* The code the Display Code Resolver is said to give for a shift definition
HasText(v) == v # Missing /\ v # PyNone /\ Len(v) > 0

ResolverCode(shift_def) ==
    IF HasText(shift_def.shortname) THEN shift_def.shortname
    ELSE IF HasText(shift_def.name)
    THEN Upper(SubSeq(shift_def.name, 1, IF Len(shift_def.name) < 2 THEN 1 ELSE 2))
    ELSE <<"T">>

\* C14: in the Year Grid sent, a day on which exactly one record of the
\* employee is dated, a 5MASHI or 5SPSHI record, shows the shortname of the
\* record's shift definition when it has one, else the first two characters
\* of its name in upper case when it has a name, else "T" (also when no
\* definition has the shift id); the code shown is never empty.
C14_YearGridCode ==
    YearGridSent =>
      \A all \in {AllAssignments(tables, request.employee_id)} :
      \A parsed \in {[k \in 1..Len(all) |-> JahresNormalize(all[k].date)]} :
      \A dated \in {DatedFacts(all, parsed, request.year)} :
      \A k \in dated :
        (/\ all[k].type \in {"main", "special"}
         /\ \A j \in dated : j # k => (parsed[j].m # parsed[k].m \/ parsed[j].d # parsed[k].d))
        => LET slot == response.body.months[parsed[k].m].days[DayKey(parsed[k].d)]
           IN  /\ slot = ResolverCode(ShiftDefinition(tables.SHIFT, all[k].shift_id))
               /\ slot # <<>>

\* C14 witness: a Year Grid sent that shows "TA" for a shift named "tag"
\* that has an empty shortname.
C14_Witness ==
    /\ YearGridSent
    /\ tables.SHIFT = IrregularShifts
    /\ \E k \in 1..Len(tables.MASHI) :
          /\ tables.MASHI[k].employee_id = request.employee_id
          /\ tables.MASHI[k].shift_id = 2
    /\ response.body.months[6].days[DayKey(10)] = <<"T", "A">>

\* C15 (as claimed): every cell of the Month Grid sent has the Display Code
\* Resolver's code of its shift definition as shift_code.
C15_MonthGridCode ==
    MonthGridSent =>
      \A e \in 1..Len(response.body.employees) :
        \A d \in DOMAIN response.body.employees[e].schedule :
          LET cell == response.body.employees[e].schedule[d]
          IN  cell.shift_code = ResolverCode(ShiftDefinition(tables.SHIFT, cell.shift_id))

\* The start time a row is said to be ordered by
StartOrMidnight(row) ==
    IF HasText(row.shift_definition.startend0) THEN row.shift_definition.startend0
    ELSE Midnight

\* C16 (as claimed): when the Shift Matrix's loop is done, the handler sends
\* the matrix, with its rows in ascending order of start time, a row whose
\* definition has no start time counting as "00:00".
C16_RowsOrderedByStart ==
    [][(pc = "einsatzplan" /\ idx = Len(assignments)) =>
          /\ response'.status = 200
          /\ \A j, k \in 1..Len(response'.body.shifts) :
                j < k => ~StrLess(StartOrMidnight(response'.body.shifts[k]),
                                  StartOrMidnight(response'.body.shifts[j]))]_vars

\* C17 (as claimed): in the Shift Matrix sent, every 5ABSEN record dated in
\* the requested month is listed on its day under the row named
\* "Abwesenheit", and that row's definition is the synthetic one, not a
\* definition of 5SHIFT.
C17_AbsenceRowIsSynthetic ==
    ShiftMatrixSent =>
      \A parsed \in {[k \in 1..Len(tables.ABSEN) |->
                        EinsatzplanNormalize(tables.ABSEN[k].date)]} :
      \A a \in 1..Len(tables.ABSEN) :
        (parsed[a].kind = "date" /\ parsed[a].y = request.year /\ parsed[a].m = request.month)
        => \E k \in 1..Len(response.body.shifts) :
              LET row == response.body.shifts[k]
              IN  /\ row.name = Abwesenheit
                  /\ parsed[a].d \in DOMAIN row.days
                  /\ \E i \in 1..Len(row.days[parsed[a].d]) :
                        row.days[parsed[a].d][i].id = tables.ABSEN[a].employee_id
                  /\ row.shift_definition = AbsenceDefinition

\* The row name a Shift Matrix fact is said to be listed under
RowNameOf(shift, shift_rows) ==
    IF shift.type = "absence" THEN Abwesenheit
    ELSE IF \E k \in 1..Len(shift_rows) :
               shift_rows[k].id = shift.shift_id /\ shift_rows[k].name # Missing
    THEN ShiftDefinition(shift_rows, shift.shift_id).name
    ELSE UnbekannteSchicht

KnownEmployeeIds == {Employees[k].id : k \in 1..Len(Employees)}

\* Every entry of matrix a is in matrix b, in the same row and day
EntriesKept(a, b) ==
    \A j \in 1..Len(a) : \E k \in 1..Len(b) :
       /\ b[k].name = a[j].name
       /\ \A d \in DOMAIN a[j].days :
             /\ d \in DOMAIN b[k].days
             /\ \A i \in 1..Len(a[j].days[d]) :
                   \E h \in 1..Len(b[k].days[d]) : b[k].days[d][h] = a[j].days[d][i]

\* C18: a pass of the Shift Matrix's loop over a fact that is dated in the
\* requested month and has an employee_id that 5EMPL does not hold ends in no
\* error and appends the entry (id, 'Unknown', '') to the fact's day in the
\* row of its shift name; no later pass removes an entry, and the matrix
\* sent holds every entry of the matrix built.
C18_UnknownEmployeeListed ==
    [][/\ (pc = "einsatzplan" /\ idx < Len(assignments)) =>
            \A shift \in {assignments[idx + 1]} :
            \A r \in {EinsatzplanNormalize(shift.date)} :
               /\ (pc' = "einsatzplan" => EntriesKept(work, work'))
               /\ (/\ shift.employee_id \notin KnownEmployeeIds \cup {NoEmployee}
                   /\ r.kind = "date" /\ r.y = request.year /\ r.m = request.month)
                  => /\ pc' = "einsatzplan"
                     /\ response'.status # 500
                     /\ \E k \in 1..Len(work') :
                           /\ work'[k].name = RowNameOf(shift, tables.SHIFT)
                           /\ r.d \in DOMAIN work'[k].days
                           /\ work'[k].days[r.d][Len(work'[k].days[r.d])]
                                 = [id |-> shift.employee_id, name |-> Unknown,
                                    firstname |-> <<>>]
       /\ (pc = "einsatzplan" /\ idx = Len(assignments) /\ response'.status = 200)
          => EntriesKept(work, response'.body.shifts)]_vars

\* C18 witness: the Shift Matrix's loop has just listed a fact of employee 3,
\* whom 5EMPL does not hold, as 'Unknown'.
C18_Witness ==
    /\ pc = "einsatzplan"
    /\ idx >= 1
    /\ assignments[idx].employee_id = 3
    /\ \E k \in 1..Len(work) : \E d \in DOMAIN work[k].days :
          \E i \in 1..Len(work[k].days[d]) :
             work[k].days[d][i] = [id |-> 3, name |-> Unknown, firstname |-> <<>>]

ShiftIds(shift_rows) == {shift_rows[k].id : k \in 1..Len(shift_rows)}

\* C19: a pass of the Month Grid's or the Shift Matrix's loop over a 5MASHI
\* or 5SPSHI record that is dated in the requested month and has a shift id
\* that 5SHIFT does not hold ends in no error; the Month Grid (for an
\* employee it lists) writes the cell with the name 'Tagschicht', the code
\* 'T' and the colours 65535, 65535, 0, and the Shift Matrix appends the
\* employee to the record's day in the row 'Unbekannte Schicht'.
C19_MissingShiftDefinitionSoft ==
    [][/\ (pc = "dienstplan" /\ idx < Len(assignments)) =>
            \A shift \in {assignments[idx + 1]} :
            \A r \in {DienstplanNormalize(shift.date)} :
               (/\ shift.shift_id \notin ShiftIds(tables.SHIFT)
                /\ r.kind = "date" /\ r.y = request.year /\ r.m = request.month
                /\ \E e \in 1..Len(work) : work[e].employee.id = shift.employee_id)
               => /\ pc' = "dienstplan"
                  /\ response'.status # 500
                  /\ \A e \in 1..Len(work') :
                        work'[e].employee.id = shift.employee_id
                        => /\ r.d \in DOMAIN work'[e].schedule
                           /\ work'[e].schedule[r.d] =
                                 [shift_id   |-> shift.shift_id,
                                  shift_code |-> <<"T">>,
                                  shift_name |-> Tagschicht,
                                  date       |-> IsoFormat(r.y, r.m, r.d),
                                  colors     |-> [bar |-> 65535, background |-> 65535,
                                                  text |-> 0]]
       /\ (pc = "einsatzplan" /\ idx < Len(assignments)) =>
            \A shift \in {assignments[idx + 1]} :
            \A r \in {EinsatzplanNormalize(shift.date)} :
               (/\ shift.type # "absence"
                /\ shift.shift_id \notin ShiftIds(tables.SHIFT)
                /\ r.kind = "date" /\ r.y = request.year /\ r.m = request.month)
               => /\ pc' = "einsatzplan"
                  /\ response'.status # 500
                  /\ \E k \in 1..Len(work') :
                        /\ work'[k].name = UnbekannteSchicht
                        /\ r.d \in DOMAIN work'[k].days
                        /\ work'[k].days[r.d][Len(work'[k].days[r.d])].id
                              = shift.employee_id]_vars

\* C19 witness: the Month Grid's loop has just written the cell of a record
\* of shift 9, which 5SHIFT does not hold.
C19_Witness ==
    /\ pc = "dienstplan"
    /\ idx >= 1
    /\ assignments[idx].shift_id = 9
    /\ \E e \in 1..Len(work) : \E d \in DOMAIN work[e].schedule :
          /\ work[e].schedule[d].shift_id = 9
          /\ work[e].schedule[d].shift_name = Tagschicht
          /\ work[e].schedule[d].colors.bar = 65535

ReferencedCodes(tb, employee_id) ==
    {ResolverCode(ShiftDefinition(tb.SHIFT, r.shift_id)) :
        r \in {row \in {tb.MASHI[k] : k \in 1..Len(tb.MASHI)}
                      \cup {tb.SPSHI[k] : k \in 1..Len(tb.SPSHI)} :
                  /\ row.employee_id = employee_id
                  /\ row.shift_id \in ShiftIds(tb.SHIFT)}}

\* C21 (as claimed): the legend of the Year Grid sent has four built-in codes,
\* "AB" and "UA" among them, and besides these the codes of exactly the shift
\* definitions that the employee's records refer to.
C21_LegendOfReferencedShifts ==
    YearGridSent =>
      \E builtin \in SUBSET DOMAIN response.body.legend :
         /\ Cardinality(builtin) = 4
         /\ {<<"A", "B">>, <<"U", "A">>} \subseteq builtin
         /\ DOMAIN response.body.legend
               = builtin \cup ReferencedCodes(tables, request.employee_id)

RowsOf(rows) == {rows[k] : k \in 1..Len(rows)}

\* C22: no step of a projection changes the reference data, and the employee
\* records and shift definitions that the Month Grid and the Shift Matrix hold
\* while they run and hand out when they return are the records of 5EMPL and
\* 5SHIFT, field for field (or, in the Shift Matrix, the empty definition of
\* an unknown shift id and the definition made up for absences).
C22_ReferenceDataUnchanged ==
    [][/\ tables' = tables
       /\ pc' = "dienstplan" =>
             \A k \in 1..Len(work') : work'[k].employee \in RowsOf(tables.EMPL)
       /\ pc' = "einsatzplan" =>
             \A k \in 1..Len(work') :
                work'[k].shift_definition
                   \in RowsOf(tables.SHIFT) \cup {EmptyDict, AbsenceDefinition}
       /\ (response'.status = 200 /\ response'.view = "dienstplan") =>
             \A k \in 1..Len(response'.body.employees) :
                response'.body.employees[k].employee \in RowsOf(tables.EMPL)
       /\ (response'.status = 200 /\ response'.view = "einsatzplan") =>
             \A k \in 1..Len(response'.body.shifts) :
                response'.body.shifts[k].shift_definition
                   \in RowsOf(tables.SHIFT) \cup {EmptyDict, AbsenceDefinition}]_vars

C22_Witness ==
    \/ /\ MonthGridSent
       /\ \E k \in 1..Len(response.body.employees) :
             /\ response.body.employees[k].employee = tables.EMPL[1]
             /\ response.body.employees[k].schedule # <<>>
    \/ /\ ShiftMatrixSent
       /\ Len(tables.SHIFT) > 0
       /\ \E k \in 1..Len(response.body.shifts) :
             response.body.shifts[k].shift_definition = tables.SHIFT[1]

\* C23: in the Month Grid sent, the cell of a listed employee on a day of the
\* requested month is built from the last record of that employee dated on
\* that day in the sequence 5MASHI followed by 5SPSHI: it carries that
\* record's shift id, so a 5SPSHI record hides every 5MASHI record of the day
\* and of two records of one table the later one shows.
C23_MonthGridLastFactWins ==
    MonthGridSent =>
      \A facts \in {tables.MASHI \o tables.SPSHI} :
      \A parsed \in {[k \in 1..Len(facts) |-> DienstplanNormalize(facts[k].date)]} :
      \A e \in 1..Len(response.body.employees) :
      \A d \in DOMAIN response.body.employees[e].schedule :
        LET row  == response.body.employees[e]
            hits == {k \in 1..Len(facts) :
                        /\ facts[k].employee_id = row.employee.id
                        /\ parsed[k].kind = "date"
                        /\ parsed[k].y = request.year /\ parsed[k].m = request.month
                        /\ parsed[k].d = d}
        IN  /\ hits # {}
            /\ \A last \in hits :
                  (\A k \in hits : k <= last) =>
                     /\ row.schedule[d].shift_id = facts[last].shift_id
                     /\ row.schedule[d].shift_name
                           = Get(ShiftDefinition(tables.SHIFT, facts[last].shift_id).name,
                                 Tagschicht)

\* C23 witness: a Month Grid sent whose cell of 10 June shows shift 2 of a
\* 5SPSHI record, with a 5MASHI record of shift 1 for the same employee and day.
C23_Witness ==
    /\ MonthGridSent
    /\ request.month = 6
    /\ \E e \in 1..Len(response.body.employees) :
          /\ 10 \in DOMAIN response.body.employees[e].schedule
          /\ response.body.employees[e].schedule[10].shift_id = 2
          /\ \E k \in 1..Len(tables.MASHI), j \in 1..Len(tables.SPSHI) :
                /\ tables.MASHI[k].employee_id = response.body.employees[e].employee.id
                /\ tables.SPSHI[j].employee_id = response.body.employees[e].employee.id
                /\ tables.MASHI[k].shift_id = 1 /\ tables.SPSHI[j].shift_id = 2
                /\ tables.MASHI[k].date \in DeepDates /\ tables.SPSHI[j].date \in DeepDates

\* A day or month field as written: one or two digits
OneOrTwoDigits(s) == IsDigitStr(s) /\ Len(s) \in 1..2

\* The date a string of three slash-separated parts is said to mean: the
\* triple <<year, month, day>>, or <<>> when it is said to fail
SlashReading(parts) ==
    IF ~(OneOrTwoDigits(parts[1]) /\ OneOrTwoDigits(parts[2]) /\ IsDigitStr(parts[3]))
    THEN <<>>
    ELSE IF Len(parts[3]) = 4
    THEN IF ValidDate(StrToInt(parts[3]), StrToInt(parts[1]), StrToInt(parts[2]))
         THEN <<StrToInt(parts[3]), StrToInt(parts[1]), StrToInt(parts[2])>>
         ELSE <<>>
    ELSE IF Len(parts[3]) = 2
    THEN LET yy   == StrToInt(parts[3])
             year == IF yy < 69 THEN 2000 + yy ELSE 1900 + yy
         IN  IF ValidDate(year, StrToInt(parts[2]), StrToInt(parts[1]))
             THEN <<year, StrToInt(parts[2]), StrToInt(parts[1])>>
             ELSE <<>>
    ELSE <<>>

\* C24: the Shift Matrix's parser reads a string of three slash-separated
\* parts (that is not taken by the time or the dash rule) as month/day/year
\* when the last part is 4 digits and as day/month/2-digit-year when it is 2
\* digits; every other such string, one with a month or day out of range or
\* with a last part that is not digits among them, fails normalisation.
C24_SlashRule ==
    (/\ normalized.einsatzplan # Pending
     /\ date_value.t = "str"
     /\ ~Contains(date_value.s, "T")
     /\ ~(Contains(date_value.s, "-") /\ Len(date_value.s) >= 10)
     /\ Len(Split(date_value.s, "/")) = 3)
    => \A reading \in {SlashReading(Split(date_value.s, "/"))} :
         IF reading = <<>>
         THEN normalized.einsatzplan.kind = "error"
         ELSE /\ normalized.einsatzplan.kind = "date"
              /\ <<normalized.einsatzplan.y, normalized.einsatzplan.m,
                   normalized.einsatzplan.d>> = reading

\* C24 witness: "03/06/25" has been normalised to 3 June 2025.
C24_Witness ==
    /\ date_value = StrValue(ShortSlashForm(2025, 6, 3))
    /\ normalized.einsatzplan.kind = "date"
    /\ normalized.einsatzplan.y = 2025
    /\ normalized.einsatzplan.m = 6 /\ normalized.einsatzplan.d = 3

\* C25: in a pass of the Year Grid's loop over the facts, every date that is
\* in date_assignments before the pass is in it after the pass, with a fact of
\* the same or a higher priority, and the only fact the pass can store is the
\* one it looks at.
C25_PriorityNeverDecreases ==
    [][(pc = "jahres" /\ pc' = "jahres") =>
          /\ \A key \in DOMAIN work :
                /\ key \in DOMAIN work'
                /\ work'[key].priority >= work[key].priority
                /\ work'[key] \in {work[key], assignments[idx + 1]}
          /\ \A key \in (DOMAIN work') \ (DOMAIN work) :
                work'[key] = assignments[idx + 1]]_vars

\* C25 witness: the pass is done, and of a main fact and a later leave fact
\* of the same date the leave fact is stored.
C25_Witness ==
    /\ pc = "jahres"
    /\ idx = Len(assignments)
    /\ \E j, k \in 1..Len(assignments) :
          /\ j < k
          /\ assignments[j].type = "main" /\ assignments[k].type = "leave"
          /\ \E key \in DOMAIN work :
                /\ work[key] = assignments[k]
                /\ JahresNormalize(assignments[j].date).kind = "date"
                /\ key = IsoFormat(JahresNormalize(assignments[j].date).y,
                                   JahresNormalize(assignments[j].date).m,
                                   JahresNormalize(assignments[j].date).d)

\* C26 (as claimed): the answer to a Year Grid request for an employee id that
\* 5EMPL does not hold has status 404.
C26_UnknownEmployeeIs404 ==
    (/\ pc = "idle"
     /\ request.view = "jahres"
     /\ request.employee_id \notin KnownEmployeeIds
     /\ response # NoResponse)
    => response.status = 404

\* C27 (as claimed): in the Year Grid sent, every code written into a day slot
\* is a key of the legend.
C27_LegendCoversEverySlot ==
    YearGridSent =>
      \A m \in 1..12 : \A d \in 1..31 :
        \A slot \in {response.body.months[m].days[DayKey(d)]} :
          slot # PyNone => slot \in DOMAIN response.body.legend

\* The facts handed to the Shift Matrix in input order (5MASHI, 5SPSHI, 5ABSEN),
\* each with the date its parser reads and the name of the row it belongs to
InputFacts(tb) ==
    LET rows == [k \in 1..(Len(tb.MASHI) + Len(tb.SPSHI)) |->
                    LET f == (tb.MASHI \o tb.SPSHI)[k]
                    IN  [employee_id |-> f.employee_id,
                         r   |-> EinsatzplanNormalize(f.date),
                         row |-> RowNameOf([type |-> "row", shift_id |-> f.shift_id],
                                           tb.SHIFT)]]
        away == [k \in 1..Len(tb.ABSEN) |->
                    [employee_id |-> tb.ABSEN[k].employee_id,
                     r   |-> EinsatzplanNormalize(tb.ABSEN[k].date),
                     row |-> Abwesenheit]]
    IN  rows \o away

\* The number of employee entries of a matrix, over all rows and days
EntryCount(shifts) ==
    SumSeq([k \in 1..Len(shifts) |->
              SumSeq([d \in 1..31 |->
                        IF d \in DOMAIN shifts[k].days THEN Len(shifts[k].days[d]) ELSE 0])])

\* C28: in the Shift Matrix sent, the number of employee entries is the number
\* of facts (5MASHI, 5SPSHI, 5ABSEN) whose date the parser reads as a day of
\* the requested month; every such fact has a row of its shift name, no two
\* rows share a name, and the employees listed in a row on a day are those of
\* the facts of that row and day, in input order.
C28_MatrixConservesFacts ==
    ShiftMatrixSent =>
      \A facts \in {InputFacts(tables)} :
      \A dated \in {SelectSeq(facts, LAMBDA f :
                       /\ f.r.kind = "date"
                       /\ f.r.y = request.year /\ f.r.m = request.month)} :
        /\ EntryCount(response.body.shifts) = Len(dated)
        /\ \A i \in 1..Len(dated) : \E k \in 1..Len(response.body.shifts) :
              response.body.shifts[k].name = dated[i].row
        /\ \A j, k \in 1..Len(response.body.shifts) :
              response.body.shifts[j].name = response.body.shifts[k].name => j = k
        /\ \A k \in 1..Len(response.body.shifts) : \A d \in 1..31 :
              LET row    == response.body.shifts[k]
                  listed == IF d \in DOMAIN row.days
                            THEN [i \in 1..Len(row.days[d]) |-> row.days[d][i].id]
                            ELSE <<>>
                  meant  == SelectSeq(dated, LAMBDA f : f.row = row.name /\ f.r.d = d)
              IN  listed = [i \in 1..Len(meant) |-> meant[i].employee_id]

\* C28 witness: a Shift Matrix sent with a cell listing employee 1 of a 5MASHI
\* record before employee 3 of a 5SPSHI record.
C28_Witness ==
    /\ ShiftMatrixSent
    /\ Len(tables.MASHI) = 1 /\ Len(tables.SPSHI) = 1
    /\ tables.MASHI[1].employee_id = 1 /\ tables.SPSHI[1].employee_id = 3
    /\ \E k \in 1..Len(response.body.shifts) :
          /\ 10 \in DOMAIN response.body.shifts[k].days
          /\ Len(response.body.shifts[k].days[10]) = 2
          /\ response.body.shifts[k].days[10][1].id = 1
          /\ response.body.shifts[k].days[10][2].id = 3

\* The ids of the active employees of 5EMPL, cut to the limit of the request
ActiveIds(employee_rows, limit) ==
    LET active == SelectSeq(employee_rows, LAMBDA e : e.active)
        ids    == [k \in 1..Len(active) |-> active[k].id]
    IN  IF limit = NoLimit \/ limit >= Len(ids) THEN ids ELSE SubSeq(ids, 1, limit)

\* C29: the Month Grid lists, from its start to the result it sends, exactly
\* the active employees of 5EMPL cut to the limit, whatever the facts are; a
\* pass of its loop over a fact of an employee it does not list ends in no
\* error and leaves every day mapping as it is, and a pass over any fact
\* leaves the day mappings of the other employees as they are.
C29_MonthGridEmployeeFrame ==
    [][/\ pc' = "dienstplan" =>
             [k \in 1..Len(work') |-> work'[k].employee.id]
                = ActiveIds(tables.EMPL, request'.limit)
       /\ (response'.status = 200 /\ response'.view = "dienstplan") =>
             [k \in 1..Len(response'.body.employees) |->
                 response'.body.employees[k].employee.id]
                = ActiveIds(tables.EMPL, request'.limit)
       /\ (pc = "dienstplan" /\ idx < Len(assignments)) =>
             /\ (\A k \in 1..Len(work) :
                    work[k].employee.id # assignments[idx + 1].employee_id)
                => (pc' = "dienstplan" /\ work' = work)
             /\ pc' = "dienstplan" =>
                   \A k \in 1..Len(work) :
                      work[k].employee.id # assignments[idx + 1].employee_id
                      => work'[k] = work[k]]_vars

\* C29 witness: a Month Grid sent for June with limit 1 that lists employee 1
\* only, with an empty day mapping, while 5MASHI holds a record of the
\* inactive employee 2 dated 10 June.
C29_Witness ==
    /\ MonthGridSent
    /\ request.month = 6 /\ request.limit = 1
    /\ Len(response.body.employees) = 1
    /\ response.body.employees[1].employee.id = 1
    /\ response.body.employees[1].schedule = <<>>
    /\ \E k \in 1..Len(tables.MASHI) :
          tables.MASHI[k].employee_id = 2 /\ tables.MASHI[k].date = OnDay10Iso

====
